---- MODULE Spec2Model ----
(***************************************************************************)
(* Model of the `rp` helper of rosenpass: the `exchange` command of        *)
(* rp/src/exchange.rs (interface lifecycle, peer provisioning, the Ctrl-C  *)
(* cleanup handler), the process exit of rp/src/main.rs and the argument   *)
(* parser of rp/src/cli.rs.                                                *)
(***************************************************************************)
EXTENDS Integers, Sequences, FiniteSets, TLC

\* ------------------------------------------------------------------------
\* Bounds of the model
\* ------------------------------------------------------------------------
MaxPeers == 2
MaxSignals == 2

\* ------------------------------------------------------------------------
\* Values
\* ------------------------------------------------------------------------
\* Option<T>: None is the empty sequence, Some(v) the one-element sequence.
None == << >>
Some(v) == << v >>
IsSome(o) == Len(o) = 1
Unwrap(o) == o[1]

\* u16 arithmetic of SocketAddr::port()
U16 == 65536

\* The kernel-assigned interface indices the lookup may report.
Indices == {3}

\* A String is modelled as a sequence of chunks of text.
Str(s) == << s >>

Ips == {"10.0.0.5"}
Ports == {51000, 65535}
Keepalives == {25}
AllowedIps == {Str("10.0.0.0/24")}
SocketAddrs == [ip : Ips, port : Ports]

Digit(d) == << "0", "1", "2", "3", "4", "5", "6", "7", "8", "9" >>[d + 1]

\* <integer>::to_string(): the decimal digits, most significant first.
RECURSIVE ToDecimal(_)
ToDecimal(n) == IF n < 10 THEN << Digit(n) >>
                ELSE ToDecimal(n \div 10) \o << Digit(n % 10) >>

\* SocketAddr::to_string() of an IPv4 address: "<ip>:<port>".
SocketAddrToString(a) == << a.ip, ":" >> \o ToDecimal(a.port)

\* struct ExchangePeer: every combination of present and absent optional
\* fields, and the endpoint with the largest port.
ExchangePeer ==
    [public_keys_dir : {Str("pub")},
     endpoint : {None, Some([ip |-> "10.0.0.5", port |-> 51000])},
     persistent_keepalive : {None} \cup {Some(k) : k \in Keepalives},
     allowed_ips : {None} \cup {Some(s) : s \in AllowedIps}]
    \cup
    [public_keys_dir : {Str("pub")},
     endpoint : {Some([ip |-> "10.0.0.5", port |-> 65535])},
     persistent_keepalive : {None},
     allowed_ips : {None}]

\* The peers that follow the first one on the command line: one without
\* and one with all the optional fields.
FollowingPeers ==
    {p \in ExchangePeer :
        \/ ~IsSome(p.endpoint) /\ ~IsSome(p.persistent_keepalive)
              /\ ~IsSome(p.allowed_ips)
        \/ IsSome(p.endpoint) /\ IsSome(p.persistent_keepalive)
              /\ IsSome(p.allowed_ips)}

\* Vec<ExchangePeer> of at most MaxPeers peers.
PeerLists ==
    {<< >>} \cup
    UNION {{<< p >> \o t : p \in ExchangePeer, t \in [1..n -> FollowingPeers]} :
              n \in 0..(MaxPeers - 1)}

\* struct ExchangeOptions
ExchangeOptions == [verbose : {FALSE},
                    private_keys_dir : {Str("priv")},
                    dev : {None, Some(Str("wg9"))},
                    listen : {None} \cup {Some(a) : a \in SocketAddrs},
                    peers : PeerLists]

\* ------------------------------------------------------------------------
\* State
\* ------------------------------------------------------------------------
VARIABLES
    options,     \* the ExchangeOptions handed to exchange()
    build,       \* "debug" (overflow checks on) or "release" (wrapping)
    pc,          \* position of the main flow inside exchange() / main()
    process,     \* "running", "exit0", "exit1", "panic101", "killed"
    result,      \* result of exchange(): "pending", "Ok" or the error
    out,         \* result of srv.event_loop(): "pending", "Ok", "EngineError"
    link_index,  \* let link_index (0 while not bound)
    lookup,      \* link.header.index inside link_create_and_up (0: not bound)
    ifPresent,   \* the kernel holds the interface created by this run
    handler,     \* the task of ctrlc_async::set_async_handler
    handlerIdx,  \* the link_index moved into the handler's future
    signals,     \* termination signals received so far
    trace,       \* requests issued so far, in order
    wgReqs,      \* set-device requests sent on the genetlink connection
    srvListen,   \* listen addresses given to AppServer::new (None: no server)
    srvPeers,    \* the add_peer calls the server accepted
    peerIdx,     \* number of peers of options.peers already consumed
    peerReads,   \* per peer handled: how its `psk` file was found, and the outcome
    fs,          \* the file system: what each path of the key commands holds
    prevFs,      \* the file system before the last genkey/pubkey call
    lastCall,    \* the last genkey/pubkey call: arguments, fault and result
    generated,   \* the directories a genkey call of this run returned Ok for
    argv,        \* std::env::args(): the argument list of the process
    cli          \* what Cli::parse(argv) returned ("state" tells whether it ran)

vars == << options, build, pc, process, result, out, link_index, lookup,
           ifPresent, handler, handlerIdx, signals, trace, wgReqs, srvListen,
           srvPeers, peerIdx, peerReads, fs, prevFs, lastCall, generated,
           argv, cli >>

\* The state of the argument parser.
cliVars == << argv, cli >>

\* The state of the key commands (key.rs).
keyVars == << fs, prevFs, lastCall, generated >>

\* The state of exchange() and of the process around it.
exchangeVars == << options, build, pc, process, result, out, link_index,
                   lookup, ifPresent, handler, handlerIdx, signals, trace,
                   wgReqs, srvListen, srvPeers, peerIdx, peerReads >>

\* One entry of trace: operation, who issued it, on which connection, for
\* which interface index (0: none), and whether it succeeded.
Req(op, by, conn, idx, ok) ==
    [op |-> op, by |-> by, conn |-> conn, idx |-> idx, ok |-> ok]

Issued(op) == {i \in 1..Len(trace) : trace[i].op = op}
IssuedBy(op, by) == {i \in 1..Len(trace) : trace[i].op = op /\ trace[i].by = by}

Init ==
    /\ options \in ExchangeOptions
    /\ build \in {"debug", "release"}
    /\ pc = "new_connection"
    /\ process = "running"
    /\ result = "pending"
    /\ out = "pending"
    /\ link_index = 0
    /\ lookup = 0
    /\ ifPresent = FALSE
    /\ handler = "unset"
    /\ handlerIdx = 0
    /\ signals = 0
    /\ trace = << >>
    /\ wgReqs = << >>
    /\ srvListen = None
    /\ srvPeers = << >>
    /\ peerIdx = 0
    /\ peerReads = << >>
    /\ fs = << >>
    /\ prevFs = << >>
    /\ lastCall = << >>
    /\ generated = {}
    /\ argv = << >>
    /\ cli = [state |-> "unused"]

Running == process = "running"

\* `?` on an Err: exchange() returns the error to main.
Return(r) ==
    /\ result' = r
    /\ pc' = "returned"

\* A panic on the main task unwinds through block_on and main.
Panic ==
    /\ pc' = "panicked"
    /\ process' = "panic101"
    /\ result' = result

\* ------------------------------------------------------------------------
\* exchange(): creating the interface (netlink::link_create_and_up)
\* ------------------------------------------------------------------------
\* let (connection, rtnetlink, _) = rtnetlink::new_connection()?;
NewConnection ==
    /\ Running /\ pc = "new_connection"
    /\ \E ok \in BOOLEAN :
          IF ok THEN pc' = "link_add" /\ result' = result
                ELSE Return("ConnectionError")
    /\ UNCHANGED << cliVars, keyVars, peerReads >>
    /\ UNCHANGED << options, build, process, out, link_index, lookup, ifPresent,
                    handler, handlerIdx, signals, trace, wgReqs, srvListen,
                    srvPeers, peerIdx >>

\* options.dev.unwrap_or("rosenpass0".to_string())
LinkName(o) == IF IsSome(o.dev) THEN Unwrap(o.dev) ELSE Str("rosenpass0")

\* Faulty variant: the `?` after the create request is dropped, the flow
\* goes on.
AfterLinkAdd_IgnoreError(ok) ==
    pc' = "link_get" /\ result' = result

\* rtnetlink.link().add().wireguard(link_name).execute().await?
AfterLinkAdd(ok) ==
    IF ok THEN pc' = "link_get" /\ result' = result
          ELSE Return("DeviceCreateError")

LinkAdd ==
    /\ Running /\ pc = "link_add"
    /\ \E ok \in BOOLEAN :
          /\ trace' = Append(trace, Req("add", "main", "main", 0, ok))
          /\ ifPresent' = ok
          /\ AfterLinkAdd(ok)
    /\ UNCHANGED << cliVars, keyVars, peerReads >>
    /\ UNCHANGED << options, build, process, out, link_index, lookup, handler,
                    handlerIdx, signals, wgReqs, srvListen, srvPeers, peerIdx >>

\* rtnetlink.link().get().match_name(..).execute().into_stream()
\*     .into_future().await.0.unwrap()?
\* "none": the stream ended without an item, unwrap() panics.
LinkGet ==
    /\ Running /\ pc = "link_get"
    /\ \E r \in {"ok", "err", "none"}, idx \in Indices :
          /\ trace' = Append(trace, Req("get", "main", "main", 0, r = "ok"))
          /\ CASE r = "ok"   -> /\ lookup' = idx
                                /\ pc' = "link_up"
                                /\ UNCHANGED << result, process >>
               [] r = "err"  -> /\ Return("DeviceLookupError")
                                /\ UNCHANGED << lookup, process >>
               [] r = "none" -> /\ Panic
                                /\ UNCHANGED lookup
    /\ UNCHANGED << cliVars, keyVars, peerReads >>
    /\ UNCHANGED << options, build, out, link_index, ifPresent, handler,
                    handlerIdx, signals, wgReqs, srvListen, srvPeers, peerIdx >>

\* Faulty variant: a failed activation is retried instead of returned.
LinkUp_Retry ==
    /\ Running /\ pc = "link_up"
    /\ \E ok \in BOOLEAN :
          /\ trace' = Append(trace, Req("up", "main", "main", lookup, ok))
          /\ IF ok THEN /\ link_index' = lookup
                        /\ pc' = "set_handler"
                   ELSE /\ UNCHANGED << link_index, pc >>
    /\ Cardinality(Issued("up")) < 2
    /\ UNCHANGED << cliVars, keyVars, peerReads >>
    /\ UNCHANGED << options, build, process, result, out, lookup, ifPresent,
                    handler, handlerIdx, signals, wgReqs, srvListen, srvPeers,
                    peerIdx >>

\* rtnetlink.link().set(link.header.index).up().execute().await?;
\* Ok(link.header.index)
LinkUp ==
    /\ Running /\ pc = "link_up"
    /\ \E ok \in BOOLEAN :
          /\ trace' = Append(trace, Req("up", "main", "main", lookup, ok))
          /\ IF ok THEN /\ link_index' = lookup
                        /\ pc' = "set_handler"
                        /\ result' = result
                   ELSE /\ Return("DeviceActivateError")
                        /\ UNCHANGED link_index
    /\ UNCHANGED << cliVars, keyVars, peerReads >>
    /\ UNCHANGED << options, build, process, out, lookup, ifPresent, handler,
                    handlerIdx, signals, wgReqs, srvListen, srvPeers, peerIdx >>

\* ------------------------------------------------------------------------
\* exchange(): arming the Ctrl-C handler
\* ------------------------------------------------------------------------
\* Faulty variant: the flow goes on without arming the handler.
SetHandler_Skipped ==
    /\ Running /\ pc = "set_handler"
    /\ pc' = "genl_connection"
    /\ UNCHANGED << cliVars, keyVars, peerReads >>
    /\ UNCHANGED << options, build, process, result, out, link_index, lookup,
                    ifPresent, handler, handlerIdx, signals, trace, wgReqs,
                    srvListen, srvPeers, peerIdx >>

\* ctrlc_async::set_async_handler(async move { .. link_index .. })?;
SetHandler ==
    /\ Running /\ pc = "set_handler"
    /\ \E ok \in BOOLEAN :
          /\ trace' = Append(trace, Req("set_handler", "main", "none", link_index, ok))
          /\ IF ok THEN /\ handler' = "armed"
                        /\ handlerIdx' = link_index
                        /\ pc' = "genl_connection"
                        /\ result' = result
                   ELSE /\ Return("HandlerError")
                        /\ UNCHANGED << handler, handlerIdx >>
    /\ UNCHANGED << cliVars, keyVars, peerReads >>
    /\ UNCHANGED << options, build, process, out, link_index, lookup, ifPresent,
                    signals, wgReqs, srvListen, srvPeers, peerIdx >>

\* ------------------------------------------------------------------------
\* exchange(): configuring the device
\* ------------------------------------------------------------------------
\* let (connection, mut genetlink, _) = genetlink::new_connection()?;
GenlConnection ==
    /\ Running /\ pc = "genl_connection"
    /\ \E ok \in BOOLEAN :
          IF ok THEN pc' = "read_wgsk" /\ result' = result
                ELSE Return("ConnectionError")
    /\ UNCHANGED << cliVars, keyVars, peerReads >>
    /\ UNCHANGED << options, build, process, out, link_index, lookup, ifPresent,
                    handler, handlerIdx, signals, trace, wgReqs, srvListen,
                    srvPeers, peerIdx >>

\* let wgsk = Privkey::from_base64(&read_to_string(wgsk_path)?)?;
ReadWgsk ==
    /\ Running /\ pc = "read_wgsk"
    /\ \E ok \in BOOLEAN :
          IF ok THEN pc' = "wg_set" /\ result' = result
                ELSE Return("KeyLoadError")
    /\ UNCHANGED << cliVars, keyVars, peerReads >>
    /\ UNCHANGED << options, build, process, out, link_index, lookup, ifPresent,
                    handler, handlerIdx, signals, trace, wgReqs, srvListen,
                    srvPeers, peerIdx >>

\* `port() + 1` on a u16: the sum leaves the type for port 65535.
Overflows(p) == p + 1 >= U16

\* The value of `port() + 1` where overflow checks are off (it wraps).
PortPlusOne(p) == (p + 1) % U16

\* attr: PrivateKey(*wgsk), then ListenPort(listen.port() + 1) if a listen
\* address was given; wg_set puts IfIndex(index) in front.
DeviceAttrs(o, index) ==
    [index |-> index,
     private_key |-> "wgsk",
     listen_port |-> IF IsSome(o.listen)
                     THEN Some(PortPlusOne(Unwrap(o.listen).port))
                     ELSE None]

\* netlink::wg_set(&mut genetlink, link_index, attr).await?;
WgSet ==
    /\ Running /\ pc = "wg_set"
    /\ IF IsSome(options.listen) /\ Overflows(Unwrap(options.listen).port)
          /\ build = "debug"
       THEN Panic /\ UNCHANGED << trace, wgReqs >>
       ELSE \E ok \in BOOLEAN :
               /\ trace' = Append(trace,
                             Req("set_device", "main", "genl", link_index, ok))
               /\ wgReqs' = Append(wgReqs, DeviceAttrs(options, link_index))
               /\ process' = process
               /\ IF ok THEN pc' = "load_keys" /\ result' = result
                        ELSE Return("DeviceConfigureError")
    /\ UNCHANGED << cliVars, keyVars, peerReads >>
    /\ UNCHANGED << options, build, out, link_index, lookup, ifPresent, handler,
                    handlerIdx, signals, srvListen, srvPeers, peerIdx >>

\* let sk = SSk::load(&pqsk)?;  let pk = SPk::load(&pqpk)?;
LoadKeys ==
    /\ Running /\ pc = "load_keys"
    /\ \E ok \in BOOLEAN :
          IF ok THEN pc' = "new_server" /\ result' = result
                ELSE Return("KeyLoadError")
    /\ UNCHANGED << cliVars, keyVars, peerReads >>
    /\ UNCHANGED << options, build, process, out, link_index, lookup, ifPresent,
                    handler, handlerIdx, signals, trace, wgReqs, srvListen,
                    srvPeers, peerIdx >>

\* Faulty variant: the engine is given the adjusted address, or a wildcard
\* address when none was supplied.
ListenAddrs_Adjusted(o) ==
    IF IsSome(o.listen)
    THEN << [ip |-> Unwrap(o.listen).ip,
             port |-> PortPlusOne(Unwrap(o.listen).port)] >>
    ELSE << [ip |-> "0.0.0.0", port |-> 0] >>

\* The listen vector given to AppServer::new.
ListenAddrs(o) == IF IsSome(o.listen) THEN << Unwrap(o.listen) >> ELSE << >>

\* let mut srv = Box::new(AppServer::new(sk, pk, .., ..)?);
\* With no peer the for loop is empty and srv.event_loop() is entered.
NewServer ==
    /\ Running /\ pc = "new_server"
    /\ \E ok \in BOOLEAN :
          /\ trace' = Append(trace, Req("new_server", "main", "none", 0, ok))
          /\ IF ok THEN /\ srvListen' = Some(ListenAddrs(options))
                        /\ pc' = IF Len(options.peers) = 0 THEN "event_loop"
                                                            ELSE "peers"
                        /\ result' = result
                   ELSE /\ Return("EngineNewError")
                        /\ UNCHANGED srvListen
    /\ UNCHANGED << cliVars, keyVars, peerReads >>
    /\ UNCHANGED << options, build, process, out, link_index, lookup, ifPresent,
                    handler, handlerIdx, signals, wgReqs, srvPeers, peerIdx >>

\* ------------------------------------------------------------------------
\* exchange(): the peer loop
\* ------------------------------------------------------------------------
\* SocketAddr::new(endpoint.ip(), endpoint.port() + 1)
AdjustedEndpoint(a) == [ip |-> a.ip, port |-> PortPlusOne(a.port)]

\* Faulty variant: the keep-alive pair is pushed before the endpoint pair and
\* an absent allowed-ips is defaulted.
ExtraParams_Reordered(peer) ==
    (IF IsSome(peer.persistent_keepalive)
     THEN << Str("persistent-keepalive"),
             ToDecimal(Unwrap(peer.persistent_keepalive)) >>
     ELSE << >>)
    \o
    (IF IsSome(peer.endpoint)
     THEN << Str("endpoint"),
             SocketAddrToString(AdjustedEndpoint(Unwrap(peer.endpoint))) >>
     ELSE << >>)
    \o
    << Str("allowed-ips"),
       IF IsSome(peer.allowed_ips) THEN Unwrap(peer.allowed_ips)
                                   ELSE Str("0.0.0.0/0") >>

\* extra_params of one peer: [name, value] for each field that is present.
ExtraParams(peer) ==
    (IF IsSome(peer.endpoint)
     THEN << Str("endpoint"),
             SocketAddrToString(AdjustedEndpoint(Unwrap(peer.endpoint))) >>
     ELSE << >>)
    \o
    (IF IsSome(peer.persistent_keepalive)
     THEN << Str("persistent-keepalive"),
             ToDecimal(Unwrap(peer.persistent_keepalive)) >>
     ELSE << >>)
    \o
    (IF IsSome(peer.allowed_ips)
     THEN << Str("allowed-ips"), Unwrap(peer.allowed_ips) >>
     ELSE << >>)

\* Faulty variant: the hint is taken from the adjusted endpoint.
EndpointHint_Adjusted(peer) ==
    IF IsSome(peer.endpoint)
    THEN Some(SocketAddrToString(AdjustedEndpoint(Unwrap(peer.endpoint))))
    ELSE None

\* peer.endpoint.map(|x| x.to_string())
EndpointHint(peer) ==
    IF IsSome(peer.endpoint) THEN Some(SocketAddrToString(Unwrap(peer.endpoint)))
                             ELSE None

\* What one iteration found: the state of the peer's `psk` file and what
\* followed it (nothing when the present file could not be loaded, since the
\* `?` returns before the other arguments are evaluated).
PeerRead(psk, r) == [psk |-> psk, r |-> IF psk = "unreadable" THEN "none" ELSE r]

\* Faulty variant: the pre-shared key is never handed over.
AddPeerArgs_NoPsk(peer, psk, link_name) ==
    [psk |-> None,
     pk |-> "pqpk",
     outwg |-> [dev |-> link_name, pk |-> "wgpk",
                extra_params |-> ExtraParams(peer)],
     endpoint |-> EndpointHint(peer)]

\* The arguments of srv.add_peer for one peer; psk is "present" when the
\* peer's directory holds a loadable `psk` file.
AddPeerArgs(peer, psk, link_name) ==
    [psk |-> IF psk = "present" THEN Some("psk") ELSE None,
     pk |-> "pqpk",
     outwg |-> [dev |-> link_name, pk |-> "wgpk",
                extra_params |-> ExtraParams(peer)],
     endpoint |-> EndpointHint(peer)]

\* srv.add_peer is called once its arguments were evaluated without error;
\* r is then the engine's answer ("ok" or "add_err").
AddPeerCalled(psk, r) == psk # "unreadable" /\ r \in {"ok", "add_err"}

\* Faulty variant: the `?` after srv.add_peer(..) is dropped.
PeerOutcome_IgnoreAddError(psk, r) ==
    IF psk = "unreadable" \/ r \in {"pqpk_err", "wgpk_err"} THEN "KeyLoadError"
    ELSE "Ok"

\* What one iteration of the loop ends in: the arguments are evaluated in
\* order (psk, pqpk, wgpk), each `?` returning early, then add_peer(..)?.
PeerOutcome(psk, r) ==
    IF psk = "unreadable" THEN "KeyLoadError"
    ELSE IF r \in {"pqpk_err", "wgpk_err"} THEN "KeyLoadError"
    ELSE IF r = "add_err" THEN "PeerRegisterError"
    ELSE "Ok"

\* for peer in options.peers { .. srv.add_peer(..)?; }
\* After the last peer srv.event_loop() is entered.
PeerStep ==
    /\ Running /\ pc = "peers" /\ peerIdx < Len(options.peers)
    /\ LET peer == options.peers[peerIdx + 1] IN
       IF IsSome(peer.endpoint) /\ Overflows(Unwrap(peer.endpoint).port)
          /\ build = "debug"
       THEN Panic /\ UNCHANGED << trace, srvPeers, peerIdx, peerReads >>
       ELSE \E psk \in {"absent", "present", "unreadable"},
               r \in {"ok", "pqpk_err", "wgpk_err", "add_err"} :
               /\ process' = process
               /\ peerReads' = Append(peerReads, PeerRead(psk, r))
               /\ trace' = IF AddPeerCalled(psk, r)
                            THEN Append(trace,
                                   Req("add_peer", "main", "none", 0, r = "ok"))
                            ELSE trace
               /\ srvPeers' = IF AddPeerCalled(psk, r) /\ r = "ok"
                               THEN Append(srvPeers,
                                      AddPeerArgs(peer, psk, LinkName(options)))
                               ELSE srvPeers
               /\ IF PeerOutcome(psk, r) = "Ok"
                  THEN /\ peerIdx' = peerIdx + 1
                       /\ pc' = IF peerIdx + 1 = Len(options.peers)
                                THEN "event_loop" ELSE "peers"
                       /\ result' = result
                  ELSE /\ Return(PeerOutcome(psk, r))
                       /\ UNCHANGED peerIdx
    /\ UNCHANGED << cliVars, keyVars >>
    /\ UNCHANGED << options, build, out, link_index, lookup, ifPresent, handler,
                    handlerIdx, signals, wgReqs, srvListen >>

\* ------------------------------------------------------------------------
\* exchange(): the engine's run loop and the cleanup after it
\* ------------------------------------------------------------------------
\* let out = srv.event_loop();   (blocks until the engine stops)
EventLoopReturn ==
    /\ Running /\ pc = "event_loop"
    /\ \E r \in {"Ok", "EngineError"} :
          /\ out' = r
          /\ trace' = Append(trace, Req("event_loop", "main", "none", 0, r = "Ok"))
    /\ pc' = "link_cleanup"
    /\ UNCHANGED << cliVars, keyVars, peerReads >>
    /\ UNCHANGED << options, build, process, result, link_index, lookup,
                    ifPresent, handler, handlerIdx, signals, wgReqs, srvListen,
                    srvPeers, peerIdx >>

\* The kernel's answers to a delete request: it cannot succeed when the
\* interface is gone.
DelAnswers == IF ifPresent THEN BOOLEAN ELSE {FALSE}

\* Faulty variant: after the cleanup exchange returns Ok(()) instead of `out`.
ExchangeResult_DropEngineResult(engineOut, delOk) ==
    IF delOk THEN "Ok" ELSE "CleanupError"

\* netlink::link_cleanup(&rtnetlink, link_index).await?;  out
ExchangeResult(engineOut, delOk) ==
    IF delOk THEN engineOut ELSE "CleanupError"

LinkCleanup ==
    /\ Running /\ pc = "link_cleanup"
    /\ \E ok \in DelAnswers :
          /\ trace' = Append(trace, Req("del", "main", "main", link_index, ok))
          /\ ifPresent' = (ifPresent /\ ~ok)
          /\ Return(ExchangeResult(out, ok))
    /\ UNCHANGED << cliVars, keyVars, peerReads >>
    /\ UNCHANGED << options, build, process, out, link_index, lookup, handler,
                    handlerIdx, signals, wgReqs, srvListen, srvPeers, peerIdx >>

\* main(): Ok(_) => {} (status 0), Err(err) => { eprintln!(..); exit(1) }
ExitStatus(r) == IF r = "Ok" THEN "exit0" ELSE "exit1"

MainExit ==
    /\ Running /\ pc = "returned"
    /\ process' = ExitStatus(result)
    /\ pc' = "exited"
    /\ UNCHANGED << cliVars, keyVars, peerReads >>
    /\ UNCHANGED << options, build, result, out, link_index, lookup, ifPresent,
                    handler, handlerIdx, signals, trace, wgReqs, srvListen,
                    srvPeers, peerIdx >>

\* ------------------------------------------------------------------------
\* Termination signals and the handler's task
\* ------------------------------------------------------------------------
\* A signal while no handler is set has the default disposition: the process
\* is killed. The first signal after set_async_handler wakes the handler's
\* future; the future runs once, later signals wake nothing.
Interrupt ==
    /\ Running /\ signals < MaxSignals
    /\ signals' = signals + 1
    /\ CASE handler = "unset" -> process' = "killed" /\ handler' = handler
         [] handler = "armed" -> handler' = "triggered" /\ process' = process
         [] OTHER             -> UNCHANGED << handler, process >>
    /\ UNCHANGED << cliVars, keyVars, peerReads >>
    /\ UNCHANGED << options, build, pc, result, out, link_index, lookup,
                    ifPresent, handlerIdx, trace, wgReqs, srvListen, srvPeers,
                    peerIdx >>

\* link_cleanup_standalone: let (connection, rtnetlink, _) =
\* rtnetlink::new_connection()?;  an Err makes the handler's expect() panic,
\* which ends the handler's task only.
HandlerConnect ==
    /\ Running /\ handler = "triggered"
    /\ \E ok \in BOOLEAN : handler' = IF ok THEN "connected" ELSE "panicked"
    /\ UNCHANGED << cliVars, keyVars, peerReads >>
    /\ UNCHANGED << options, build, pc, process, result, out, link_index, lookup,
                    ifPresent, handlerIdx, signals, trace, wgReqs, srvListen,
                    srvPeers, peerIdx >>

\* Faulty variant: the delete request's error is propagated with `?`, so that the
\* handler's expect() panics on it.
CleanupStandalone_Propagate(delOk) == IF delOk THEN "done" ELSE "panicked"

\* let _ = rtnetlink.link().del(index).execute().await;  Ok(())
\* then .expect("Failed to clean up") on that Ok: the handler's future is
\* complete ("done") whatever the request answered.
CleanupStandalone(delOk) == "done"

HandlerDel ==
    /\ Running /\ handler = "connected"
    /\ \E ok \in DelAnswers :
          /\ trace' = Append(trace, Req("del", "handler", "fresh", handlerIdx, ok))
          /\ ifPresent' = (ifPresent /\ ~ok)
          /\ handler' = CleanupStandalone(ok)
    /\ UNCHANGED << cliVars, keyVars, peerReads >>
    /\ UNCHANGED << options, build, pc, process, result, out, link_index, lookup,
                    handlerIdx, signals, wgReqs, srvListen, srvPeers, peerIdx >>

Next ==
    \/ NewConnection
    \/ LinkAdd
    \/ LinkGet
    \/ LinkUp
    \/ SetHandler
    \/ GenlConnection
    \/ ReadWgsk
    \/ WgSet
    \/ LoadKeys
    \/ NewServer
    \/ PeerStep
    \/ EventLoopReturn
    \/ LinkCleanup
    \/ MainExit
    \/ Interrupt
    \/ HandlerConnect
    \/ HandlerDel

Spec == Init /\ [][Next]_vars

\* ------------------------------------------------------------------------
\* Properties of the interface lifecycle
\* ------------------------------------------------------------------------
\* The create-interface request of this run succeeded / failed.
Created == \E i \in Issued("add") : trace[i].ok
CreateFailed == \E i \in Issued("add") : ~trace[i].ok

\* The process has ended (by exit, by panic or by a signal).
Ended == process # "running"

\* C1: in a run that created the interface a delete request is issued
\* exactly once before the process ends, on every exit path; in a run where
\* creation failed none is issued.
C1_DeleteExactlyOncePerRun ==
    Ended => IF Created THEN Cardinality(Issued("del")) = 1
                        ELSE Cardinality(Issued("del")) = 0

\* C2: one run never holds a delete request of the handler together with one
\* of the main flow, nor two delete requests of the handler.
C2_DeleteByOnePathOnly ==
    /\ ~(IssuedBy("del", "handler") # {} /\ IssuedBy("del", "main") # {})
    /\ Cardinality(IssuedBy("del", "handler")) <= 1

\* C3: when the create-interface request fails, exchange returns that error
\* and the run issues no lookup, activation, set-device, engine construction,
\* peer registration, handler arming or delete request.
C3_CreateFailureStopsRun ==
    CreateFailed =>
        /\ pc \in {"returned", "exited"}
        /\ result = "DeviceCreateError"
        /\ \A op \in {"get", "up", "set_handler", "set_device", "new_server",
                      "add_peer", "event_loop", "del"} : Issued(op) = {}
        /\ handler = "unset"
        /\ wgReqs = << >> /\ srvListen = None /\ srvPeers = << >>
        /\ ~ifPresent

\* C3 witness: the create request failed and the process exited with it.
C3_Witness ==
    CreateFailed /\ process = "exit1" /\ result = "DeviceCreateError"

\* C4: when the delete request after the engine's run loop fails, exchange
\* still returns the engine's own result.
C4_CleanupFailureKeepsEngineResult ==
    (pc \in {"returned", "exited"}
       /\ \E i \in IssuedBy("del", "main") : ~trace[i].ok)
    => result = out

\* C5: a failed delete request of the handler is fatal to the handler: it
\* does not complete successfully.
C5_HandlerDeleteFailureFatal ==
    (\E i \in IssuedBy("del", "handler") : ~trace[i].ok) => handler = "panicked"

\* C5 as amended: the answer to the handler's delete request is ignored: the
\* handler completes successfully after it, whatever the answer, and does not
\* end the process; the handler panics only when the fresh connection cannot
\* be opened, and then it has issued no delete request.
C5_HandlerIgnoresDeleteFailure ==
    /\ IssuedBy("del", "handler") # {} => handler = "done"
    /\ handler = "panicked" => IssuedBy("del", "handler") = {}
    /\ (handler \in {"done", "panicked"}
          /\ pc \notin {"returned", "exited", "panicked"})
       => process = "running"

\* C5 witness: the handler's delete request failed and the handler completed.
C5_Witness ==
    /\ \E i \in IssuedBy("del", "handler") : ~trace[i].ok
    /\ handler = "done"
    /\ process = "running"

\* C6: once the handler is armed, a termination signal leads to a delete
\* request for the held index on a fresh connection and then to the end of
\* the process, without the engine's run loop having returned: when the
\* handler has run to completion, that request was issued and the process
\* has ended.
C6_SignalDeletesAndTerminates ==
    (handler = "done" /\ pc = "event_loop")
    => /\ \E i \in IssuedBy("del", "handler") :
             trace[i].conn = "fresh" /\ trace[i].idx = link_index
       /\ Ended

\* C7: after the create request succeeded, no interrupt ends the process
\* with the interface still present.
C7_InterruptAfterCreateRemoves ==
    (Created /\ process = "killed") => ~ifPresent

\* C8: every port pushed to the classic tunnel is the user's port plus one:
\* the ListenPort attribute and each peer's endpoint entry (IP unchanged).
C8_PortPlusOneEverywhere ==
    /\ \A i \in 1..Len(wgReqs) :
          IsSome(options.listen) =>
             wgReqs[i].listen_port = Some(Unwrap(options.listen).port + 1)
    /\ \A j \in 1..Len(srvPeers) :
          IsSome(options.peers[j].endpoint) =>
             LET e == Unwrap(options.peers[j].endpoint) IN
             /\ srvPeers[j].outwg.extra_params[1] = Str("endpoint")
             /\ srvPeers[j].outwg.extra_params[2]
                   = << e.ip, ":" >> \o ToDecimal(e.port + 1)

\* The engine's run loop was entered.
ReachedEventLoop == pc \in {"event_loop", "link_cleanup"} \/ out # "pending"

\* C9: each peer gets a set-peer request on the tunnel's control channel and
\* an add_peer registration; the run loop is reached only after both
\* succeeded for every peer.
C9_TwoWritesPerPeer ==
    ReachedEventLoop =>
        /\ Cardinality({i \in Issued("set_peer") : trace[i].ok})
              = Len(options.peers)
        /\ Cardinality({i \in Issued("add_peer") : trace[i].ok})
              = Len(options.peers)

\* C9 as amended: provisioning performs one write per peer, the add_peer
\* registration, which carries the peer's classic public key and parameter
\* list as tunnel linkage; no set-peer request is sent on the control
\* channel; the run loop is reached only after add_peer succeeded for every
\* peer.
C9_OneWritePerPeer ==
    /\ Issued("set_peer") = {}
    /\ \A i \in 1..Len(wgReqs) : wgReqs[i].index = link_index
    /\ Len(wgReqs) <= 1
    /\ ReachedEventLoop =>
          /\ Len(srvPeers) = Len(options.peers)
          /\ \A i \in Issued("add_peer") : trace[i].ok
          /\ Cardinality(Issued("add_peer")) = Len(options.peers)
          /\ \A j \in 1..Len(srvPeers) :
                /\ srvPeers[j].outwg.pk = "wgpk"
                /\ srvPeers[j].outwg.dev = LinkName(options)
                /\ Len(srvPeers[j].outwg.extra_params) =
                      2 * Cardinality({f \in {"endpoint", "persistent_keepalive",
                                              "allowed_ips"} :
                                          IsSome(options.peers[j][f])})

\* C9 witness: the run loop was reached with two registered peers.
C9_Witness ==
    pc = "event_loop" /\ Len(options.peers) = 2 /\ Len(srvPeers) = 2

\* ------------------------------------------------------------------------
\* The argument parser (cli.rs)
\* ------------------------------------------------------------------------
Digits == {"0", "1", "2", "3", "4", "5", "6", "7", "8", "9"}

\* The digit a character stands for.
DigitValue(c) == CHOOSE d \in 0..9 : Digit(d) = c

\* The number a string of decimal digits stands for.
RECURSIVE FromDecimal(_)
FromDecimal(t) ==
    IF Len(t) = 0 THEN 0
    ELSE 10 * FromDecimal(SubSeq(t, 1, Len(t) - 1)) + DigitValue(t[Len(t)])

IsDecimal(t) == Len(t) >= 1 /\ \A i \in 1..Len(t) : t[i] \in Digits

\* ka.parse::<u32>(): every string of at most nine digits is a u32; longer
\* strings (values near or above 2^32) are outside the model's inputs and
\* are treated as rejected.
ParseU32(t) ==
    IF IsDecimal(t) /\ Len(t) <= 9 THEN Some(FromDecimal(t)) ELSE None

\* addr.parse::<SocketAddr>(): "<ip>:<port>" with a u16 port.
ParseSocketAddr(t) ==
    IF /\ Len(t) >= 3
       /\ t[1] \in Ips
       /\ t[2] = ":"
       /\ IsDecimal(SubSeq(t, 3, Len(t)))
       /\ FromDecimal(SubSeq(t, 3, Len(t))) < U16
    THEN Some([ip |-> t[1], port |-> FromDecimal(SubSeq(t, 3, Len(t)))])
    ELSE None

\* ExchangePeer::default(), ExchangeOptions::default(), Cli::default()
DefaultPeer ==
    [public_keys_dir |-> << >>, endpoint |-> None,
     persistent_keepalive |-> None, allowed_ips |-> None]

DefaultOptions ==
    [verbose |-> FALSE, private_keys_dir |-> << >>, dev |-> None,
     listen |-> None, peers |-> << >>]

DefaultCli == [verbose |-> FALSE, command |-> None]

\* enum Command
GenKey(private_keys_dir) ==
    [type |-> "GenKey", private_keys_dir |-> private_keys_dir,
     public_keys_dir |-> << >>, options |-> DefaultOptions]

PubKey(private_keys_dir, public_keys_dir) ==
    [type |-> "PubKey", private_keys_dir |-> private_keys_dir,
     public_keys_dir |-> public_keys_dir, options |-> DefaultOptions]

Exchange(o) ==
    [type |-> "Exchange", private_keys_dir |-> << >>,
     public_keys_dir |-> << >>, options |-> o]

\* Ok(val), with the position the argument iterator is left at.
Ok(val, pos) == [ok |-> TRUE, err |-> << >>, val |-> val, pos |-> pos]

\* fn fatal(note, command): Err("<note>\nUsage: rp ...")
Fatal(note, command) ==
    [ok |-> FALSE, err |-> note \o << "\nUsage: rp ", command >>,
     val |-> << >>, pos |-> 0]

\* ExchangePeer::parse: the `while let Some(x) = args.next()` loop; pos is
\* the index of the item args.next() yields next.
RECURSIVE PeerOptionsLoop(_, _, _)
PeerOptionsLoop(args, pos, peer) ==
    IF pos > Len(args) THEN Ok(peer, pos)
    ELSE LET x == args[pos] IN
         CASE x = Str("endpoint") ->
                IF pos + 1 > Len(args)
                THEN Fatal(Str("listen option requires parameter"), "exchange")
                ELSE IF IsSome(ParseSocketAddr(args[pos + 1]))
                THEN PeerOptionsLoop(args, pos + 2,
                        [peer EXCEPT !.endpoint = ParseSocketAddr(args[pos + 1])])
                ELSE Fatal(Str("invalid parameter for listen option"), "exchange")
           [] x = Str("persistent-keepalive") ->
                IF pos + 1 > Len(args)
                THEN Fatal(Str("persistent-keepalive option requires parameter"),
                           "exchange")
                ELSE IF IsSome(ParseU32(args[pos + 1]))
                THEN PeerOptionsLoop(args, pos + 2,
                        [peer EXCEPT !.persistent_keepalive =
                                        ParseU32(args[pos + 1])])
                ELSE Fatal(Str("invalid parameter for persistent-keepalive option"),
                           "exchange")
           [] x = Str("allowed-ips") ->
                IF pos + 1 > Len(args)
                THEN Fatal(Str("allowed-ips option requires parameter"), "exchange")
                ELSE PeerOptionsLoop(args, pos + 2,
                        [peer EXCEPT !.allowed_ips = Some(args[pos + 1])])
           [] OTHER -> Fatal(Str("Unknown option ") \o x, "exchange")

\* ExchangePeer::parse
ExchangePeerParse(args, pos) ==
    IF pos > Len(args)
    THEN Fatal(Str("Required positional argument: PUBLIC_KEYS_DIR"), "exchange")
    ELSE PeerOptionsLoop(args, pos + 1,
            [DefaultPeer EXCEPT !.public_keys_dir = args[pos]])

\* ExchangeOptions::parse: the `while let Some(x) = args.next()` loop.
RECURSIVE OptionsLoop(_, _, _)
OptionsLoop(args, pos, o) ==
    IF pos > Len(args) THEN Ok(o, pos)
    ELSE LET x == args[pos] IN
         CASE x = Str("dev") ->
                IF pos + 1 > Len(args)
                THEN Fatal(Str("dev option requires parameter"), "exchange")
                ELSE OptionsLoop(args, pos + 2,
                        [o EXCEPT !.dev = Some(args[pos + 1])])
           [] x = Str("listen") ->
                IF pos + 1 > Len(args)
                THEN Fatal(Str("listen option requires parameter"), "exchange")
                ELSE IF IsSome(ParseSocketAddr(args[pos + 1]))
                THEN OptionsLoop(args, pos + 2,
                        [o EXCEPT !.listen = ParseSocketAddr(args[pos + 1])])
                ELSE Fatal(Str("invalid parameter for listen option"), "exchange")
           [] x = Str("peer") ->
                LET r == ExchangePeerParse(args, pos + 1) IN
                IF r.ok
                THEN OptionsLoop(args, r.pos,
                        [o EXCEPT !.peers = Append(@, r.val)])
                ELSE r
           [] OTHER -> Fatal(Str("Unknown option ") \o x, "exchange")

\* ExchangeOptions::parse
ExchangeOptionsParse(args, pos) ==
    IF pos > Len(args)
    THEN Fatal(Str("Required positional argument: PRIVATE_KEYS_DIR"), "exchange")
    ELSE OptionsLoop(args, pos + 1,
            [DefaultOptions EXCEPT !.private_keys_dir = args[pos]])

\* Faulty variant: the check for a missing command after the loop is dropped.
RECURSIVE CliLoop_NoCommandCheck(_, _, _)
CliLoop_NoCommandCheck(args, pos, c) ==
    IF pos > Len(args)
    THEN Ok(c, pos)
    ELSE LET x == args[pos] IN
         CASE x = Str("verbose") ->
                CliLoop_NoCommandCheck(args, pos + 1, [c EXCEPT !.verbose = TRUE])
           [] x = Str("genkey") ->
                IF IsSome(c.command)
                THEN Fatal(Str("Too many commands supplied"), "[explain] [verbose]")
                ELSE IF pos + 1 > Len(args)
                THEN Fatal(Str("Required positional argument: PRIVATE_KEYS_DIR"),
                           "genkey")
                ELSE CliLoop_NoCommandCheck(args, pos + 2,
                        [c EXCEPT !.command = Some(GenKey(args[pos + 1]))])
           [] x = Str("pubkey") ->
                IF IsSome(c.command)
                THEN Fatal(Str("Too many commands supplied"), "[explain] [verbose]")
                ELSE IF pos + 1 > Len(args)
                THEN Fatal(Str("Required positional argument: PRIVATE_KEYS_DIR"),
                           "pubkey")
                ELSE IF pos + 2 > Len(args)
                THEN Fatal(Str("Required positional argument: PUBLIC_KEYS_DIR"),
                           "pubkey")
                ELSE CliLoop_NoCommandCheck(args, pos + 3,
                        [c EXCEPT !.command =
                                     Some(PubKey(args[pos + 1], args[pos + 2]))])
           [] x = Str("exchange") ->
                IF IsSome(c.command)
                THEN Fatal(Str("Too many commands supplied"), "[explain] [verbose]")
                ELSE LET r == ExchangeOptionsParse(args, pos + 1) IN
                     IF r.ok
                     THEN CliLoop_NoCommandCheck(args, r.pos,
                             [c EXCEPT !.command = Some(Exchange(r.val))])
                     ELSE r
           [] OTHER -> Fatal(Str("Unknown command ") \o x, "[explain] [verbose]")

\* Cli::parse: the `while let Some(x) = args.next()` loop and the check
\* after it.
RECURSIVE CliLoop(_, _, _)
CliLoop(args, pos, c) ==
    IF pos > Len(args)
    THEN IF IsSome(c.command) THEN Ok(c, pos)
         ELSE Fatal(Str("No command supplied"), "[explain] [verbose]")
    ELSE LET x == args[pos] IN
         CASE x = Str("verbose") ->
                CliLoop(args, pos + 1, [c EXCEPT !.verbose = TRUE])
           [] x = Str("genkey") ->
                IF IsSome(c.command)
                THEN Fatal(Str("Too many commands supplied"), "[explain] [verbose]")
                ELSE IF pos + 1 > Len(args)
                THEN Fatal(Str("Required positional argument: PRIVATE_KEYS_DIR"),
                           "genkey")
                ELSE CliLoop(args, pos + 2,
                        [c EXCEPT !.command = Some(GenKey(args[pos + 1]))])
           [] x = Str("pubkey") ->
                IF IsSome(c.command)
                THEN Fatal(Str("Too many commands supplied"), "[explain] [verbose]")
                ELSE IF pos + 1 > Len(args)
                THEN Fatal(Str("Required positional argument: PRIVATE_KEYS_DIR"),
                           "pubkey")
                ELSE IF pos + 2 > Len(args)
                THEN Fatal(Str("Required positional argument: PUBLIC_KEYS_DIR"),
                           "pubkey")
                ELSE CliLoop(args, pos + 3,
                        [c EXCEPT !.command =
                                     Some(PubKey(args[pos + 1], args[pos + 2]))])
           [] x = Str("exchange") ->
                IF IsSome(c.command)
                THEN Fatal(Str("Too many commands supplied"), "[explain] [verbose]")
                ELSE LET r == ExchangeOptionsParse(args, pos + 1) IN
                     IF r.ok
                     THEN CliLoop(args, r.pos,
                             [c EXCEPT !.command = Some(Exchange(r.val))])
                     ELSE r
           [] OTHER -> Fatal(Str("Unknown command ") \o x, "[explain] [verbose]")

\* Cli::parse: the executable's name is skipped.
CliParse(args) == CliLoop(args, 2, DefaultCli)

\* The argument list `peer PUBLIC_KEYS_DIR [endpoint ..]
\* [persistent-keepalive ..] [allowed-ips ..]` of one peer descriptor.
PeerArgv(p) ==
    << Str("peer"), p.public_keys_dir >>
    \o (IF IsSome(p.endpoint)
        THEN << Str("endpoint"), SocketAddrToString(Unwrap(p.endpoint)) >>
        ELSE << >>)
    \o (IF IsSome(p.persistent_keepalive)
        THEN << Str("persistent-keepalive"),
                ToDecimal(Unwrap(p.persistent_keepalive)) >>
        ELSE << >>)
    \o (IF IsSome(p.allowed_ips)
        THEN << Str("allowed-ips"), Unwrap(p.allowed_ips) >>
        ELSE << >>)

RECURSIVE PeersArgv(_)
PeersArgv(ps) ==
    IF Len(ps) = 0 THEN << >> ELSE PeerArgv(Head(ps)) \o PeersArgv(Tail(ps))

\* The argument list `rp exchange PRIVATE_KEYS_DIR [dev D] [listen A]
\* [peer ..]...` that asks for the options o.
ExchangeArgv(o) ==
    << Str("rp"), Str("exchange"), o.private_keys_dir >>
    \o (IF IsSome(o.dev) THEN << Str("dev"), Unwrap(o.dev) >> ELSE << >>)
    \o (IF IsSome(o.listen)
        THEN << Str("listen"), SocketAddrToString(Unwrap(o.listen)) >>
        ELSE << >>)
    \o PeersArgv(o.peers)

\* The longest list of words after the executable's name.
MaxArgs == 4

\* The words of the short argument lists: the keywords of Cli::parse, a
\* directory name and the `peer` keyword of `exchange`.
Words == {Str("verbose"), Str("genkey"), Str("pubkey"), Str("exchange"),
          Str("priv"), Str("peer")}

RECURSIVE WordLists(_)
WordLists(n) ==
    IF n = 0 THEN {<< >>}
    ELSE WordLists(n - 1)
         \cup {Append(l, w) : l \in {m \in WordLists(n - 1) : Len(m) = n - 1},
                              w \in Words}

\* The argument lists the parser is run on: the lists that ask for each
\* ExchangeOptions, every short list of words after the executable's name,
\* and the empty list.
ArgvInputs ==
    {ExchangeArgv(o) : o \in ExchangeOptions}
    \cup {<< Str("rp") >> \o l : l \in WordLists(MaxArgs)}
    \cup {<< >>}

InitCli ==
    /\ argv \in ArgvInputs
    /\ cli = [state |-> "pending"]
    /\ options = DefaultOptions
    /\ build = "release"
    /\ pc = "parse"
    /\ process = "running"
    /\ result = "pending"
    /\ out = "pending"
    /\ link_index = 0
    /\ lookup = 0
    /\ ifPresent = FALSE
    /\ handler = "unset"
    /\ handlerIdx = 0
    /\ signals = 0
    /\ trace = << >>
    /\ wgReqs = << >>
    /\ srvListen = None
    /\ srvPeers = << >>
    /\ peerIdx = 0
    /\ peerReads = << >>
    /\ fs = << >>
    /\ prevFs = << >>
    /\ lastCall = << >>
    /\ generated = {}

\* main(): Cli::parse(std::env::args().peekable())
ParseArgs ==
    /\ cli.state = "pending"
    /\ cli' = [state |-> "parsed", res |-> CliParse(argv)]
    /\ UNCHANGED argv
    /\ UNCHANGED << exchangeVars, keyVars >>

\* main(): an Err of Cli::parse is printed and the process exits with 1;
\* otherwise `cli.command.unwrap()` (which panics on None) and the match on
\* the command, where exchange gets cli.verbose.
MainDispatch ==
    /\ cli.state = "parsed"
    /\ cli' = [cli EXCEPT !.state = "dispatched"]
    /\ IF ~cli.res.ok
       THEN process' = "exit1" /\ UNCHANGED << pc, options >>
       ELSE IF ~IsSome(cli.res.val.command)
       THEN process' = "panic101" /\ pc' = "panicked" /\ UNCHANGED options
       ELSE LET command == Unwrap(cli.res.val.command) IN
            /\ process' = process
            /\ pc' = command.type
            /\ options' = IF command.type = "Exchange"
                          THEN [command.options EXCEPT
                                   !.verbose = cli.res.val.verbose]
                          ELSE options
    /\ UNCHANGED << argv, keyVars >>
    /\ UNCHANGED << build, result, out, link_index, lookup, ifPresent, handler,
                    handlerIdx, signals, trace, wgReqs, srvListen, srvPeers,
                    peerIdx, peerReads >>

NextCli == ParseArgs \/ MainDispatch

SpecCli == InitCli /\ [][NextCli]_vars

\* C10: every argument list `exchange PRIVATE_KEYS_DIR [dev D] [listen A]`
\* followed by k >= 0 peer groups parses to Ok, and the options hold exactly
\* the k peer descriptors, in order, each with the fields of its group.
C10_ExchangeArgvParses ==
    cli.state = "parsed" =>
        \A o \in ExchangeOptions :
            argv = ExchangeArgv(o) =>
                /\ cli.res.ok
                /\ IsSome(cli.res.val.command)
                /\ Unwrap(cli.res.val.command) = Exchange(o)

\* C10, restricted: the same for argument lists with at most one peer
\* group, which the parser does accept.
C10_AtMostOnePeerParses ==
    cli.state = "parsed" =>
        \A o \in ExchangeOptions :
            (argv = ExchangeArgv(o) /\ Len(o.peers) <= 1) =>
                /\ cli.res.ok
                /\ IsSome(cli.res.val.command)
                /\ Unwrap(cli.res.val.command) = Exchange(o)

\* ------------------------------------------------------------------------
\* Properties of the engine's return, the exit status and the peer arguments
\* ------------------------------------------------------------------------
\* The position in trace of the return of srv.event_loop() (0: not returned).
EventLoopAt == IF Issued("event_loop") = {} THEN 0
               ELSE CHOOSE i \in Issued("event_loop") : TRUE

\* C11: whenever the engine's run loop has returned (Ok or error, any number
\* of peers) the main flow issues a delete request for the held index after
\* that return, before exchange returns; when that deletion succeeded,
\* exchange returns exactly the engine's result, and the exit status is 1
\* for an engine error and 0 for Ok.
C11_DeleteAfterEngineReturn ==
    /\ out # "pending" =>
          /\ Cardinality(Issued("event_loop")) = 1
          /\ trace[EventLoopAt].ok = (out = "Ok")
          /\ Len(srvPeers) = Len(options.peers)
    /\ (out # "pending" /\ pc \in {"returned", "exited"}) =>
          /\ \E i \in IssuedBy("del", "main") :
                /\ i > EventLoopAt
                /\ trace[i].idx = link_index
                /\ trace[i].conn = "main"
                /\ trace[i].ok => result = out
          /\ Cardinality(IssuedBy("del", "main")) = 1
    /\ (out # "pending" /\ pc = "exited" /\ result = out) =>
          process = IF out = "Ok" THEN "exit0" ELSE "exit1"

\* C11 witness: the engine returned an error after two peers were
\* registered, the interface was deleted and the process exited with 1.
C11_Witness ==
    /\ out = "EngineError" /\ Len(srvPeers) = 2
    /\ \E i \in IssuedBy("del", "main") : trace[i].ok
    /\ result = "EngineError" /\ process = "exit1" /\ ~ifPresent

\* C12: a run ends with status 0 when the command completed successfully or
\* with status 1 after a fatal error; no failure of the program ends the
\* process by another route (a kill by a signal is not the program's doing).
C12_ExitZeroOrOne ==
    (Ended /\ process # "killed") =>
        /\ process \in {"exit0", "exit1"}
        /\ process = "exit0" <=> result = "Ok"

\* C13: the endpoint hint given to add_peer is the descriptor's endpoint,
\* address and port unadjusted, and is absent when the descriptor has no
\* endpoint; the parameter list then has no endpoint entry either.
C13_EndpointHintUnadjusted ==
    \A j \in 1..Len(srvPeers) :
        LET p == options.peers[j]
            a == srvPeers[j] IN
        IF IsSome(p.endpoint)
        THEN /\ IsSome(a.endpoint)
             /\ ParseSocketAddr(Unwrap(a.endpoint)) = p.endpoint
             /\ Unwrap(a.endpoint)
                   = << Unwrap(p.endpoint).ip, ":" >>
                        \o ToDecimal(Unwrap(p.endpoint).port)
        ELSE /\ a.endpoint = None
             /\ \A k \in 1..Len(a.outwg.extra_params) :
                   a.outwg.extra_params[k] # Str("endpoint")

\* C13 witness: a peer with an endpoint and a peer without one are both
\* registered.
C13_Witness ==
    /\ Len(srvPeers) = 2
    /\ IsSome(options.peers[1].endpoint) /\ IsSome(srvPeers[1].endpoint)
    /\ ~IsSome(options.peers[2].endpoint) /\ srvPeers[2].endpoint = None

\* ------------------------------------------------------------------------
\* Properties of the peer loop's arguments
\* ------------------------------------------------------------------------
\* The peer j (1-based) was registered by the engine.
Registered(j) == j <= Len(srvPeers)

\* C14: a peer without a `psk` file is registered with no pre-shared key
\* and the loop goes on (its absence is no error); a peer with a loadable
\* `psk` file is registered with the key loaded from it; a `psk` file that
\* is present but cannot be loaded ends the run with the load error before
\* add_peer is called for that peer.
C14_PskOptional ==
    /\ Len(peerReads) <= Len(options.peers)
    /\ \A j \in 1..Len(peerReads) :
          LET rd == peerReads[j] IN
          /\ (rd.psk = "absent" /\ rd.r = "ok")
                => /\ Registered(j) /\ srvPeers[j].psk = None
                   /\ peerIdx >= j
          /\ (rd.psk = "present" /\ rd.r = "ok")
                => /\ Registered(j) /\ srvPeers[j].psk = Some("psk")
                   /\ peerIdx >= j
          /\ (rd.psk = "absent" /\ rd.r = "add_err")
                => /\ Cardinality(Issued("add_peer")) = j
                   /\ result = "PeerRegisterError"
          /\ rd.psk = "unreadable"
                => /\ j = Len(peerReads)
                   /\ result = "KeyLoadError"
                   /\ ~Registered(j)
                   /\ Cardinality(Issued("add_peer")) = j - 1
                   /\ Issued("event_loop") = {}

C14_Witness ==
    /\ Len(peerReads) = 2
    /\ peerReads[1] = [psk |-> "absent", r |-> "ok"]
    /\ peerReads[2] = [psk |-> "present", r |-> "ok"]
    /\ srvPeers[1].psk = None
    /\ srvPeers[2].psk = Some("psk")
    /\ pc = "event_loop"


\* The number of entries a field contributes to extra_params.
Pair(field) == IF IsSome(field) THEN 2 ELSE 0

\* C15: for every peer handed to the engine, extra_params is the
\* concatenation, in the order endpoint, persistent-keepalive, allowed-ips,
\* of one [name, value] pair per present field and nothing else: the
\* keep-alive value is the decimal form of the supplied number, the
\* allowed-ips value is the supplied string, the endpoint value is an address
\* of the supplied host, and an absent field contributes no entry.
C15_ExtraParamsInOrder ==
    \A j \in 1..Len(srvPeers) :
       LET p  == options.peers[j]
           ep == srvPeers[j].outwg.extra_params
           n1 == Pair(p.endpoint)
           n2 == Pair(p.persistent_keepalive)
           n3 == Pair(p.allowed_ips)
       IN  /\ Len(ep) = n1 + n2 + n3
           /\ IsSome(p.endpoint) =>
                 /\ ep[1] = Str("endpoint")
                 /\ IsSome(ParseSocketAddr(ep[2]))
                 /\ Unwrap(ParseSocketAddr(ep[2])).ip = Unwrap(p.endpoint).ip
           /\ IsSome(p.persistent_keepalive) =>
                 /\ ep[n1 + 1] = Str("persistent-keepalive")
                 /\ ep[n1 + 2] = ToDecimal(Unwrap(p.persistent_keepalive))
                 /\ ParseU32(ep[n1 + 2]) = p.persistent_keepalive
           /\ IsSome(p.allowed_ips) =>
                 /\ ep[n1 + n2 + 1] = Str("allowed-ips")
                 /\ ep[n1 + n2 + 2] = Unwrap(p.allowed_ips)

\* Scenario B (endpoint and keep-alive, no allowed-ips) followed by a peer
\* with all three fields.
C15_Witness ==
    /\ Len(srvPeers) = 2
    /\ IsSome(options.peers[1].endpoint)
    /\ IsSome(options.peers[1].persistent_keepalive)
    /\ ~IsSome(options.peers[1].allowed_ips)
    /\ srvPeers[1].outwg.extra_params
          = << Str("endpoint"), << "10.0.0.5", ":", "5", "1", "0", "0", "1" >>,
               Str("persistent-keepalive"), << "2", "5" >> >>
    /\ Len(srvPeers[2].outwg.extra_params) = 6

\* ------------------------------------------------------------------------
\* Properties of the order of the main flow
\* ------------------------------------------------------------------------
\* The requests of exchange() itself (not of the handler), in order.
MainTrace == SelectSeq(trace, LAMBDA e : e.by = "main")

\* Their operations, in order.
MainOps == [i \in 1..Len(MainTrace) |-> MainTrace[i].op]

\* C16: every set-device request carries the private key, and no listen
\* port when no listen address was supplied; the engine is constructed with
\* [L] for a supplied listen address L (unadjusted) and with the empty list
\* otherwise; with no peers, a run whose engine returned and whose exchange()
\* then returned went: create, look up, activate, (arm the handler), set
\* device, construct the engine, run it with no peer, delete.
C16_ListenAndNoPeers ==
    /\ \A i \in 1..Len(wgReqs) :
          /\ wgReqs[i].private_key = "wgsk"
          /\ ~IsSome(options.listen) => wgReqs[i].listen_port = None
    /\ IsSome(srvListen) =>
          IF IsSome(options.listen)
          THEN Unwrap(srvListen) = << Unwrap(options.listen) >>
          ELSE Unwrap(srvListen) = << >>
    /\ (Len(options.peers) = 0 /\ out # "pending" /\ result # "pending") =>
          /\ MainOps = << "add", "get", "up", "set_handler", "set_device",
                          "new_server", "event_loop", "del" >>
          /\ \A i \in 1..6 : MainTrace[i].ok
          /\ srvPeers = << >>
          /\ MainTrace[8].idx = link_index
          /\ MainTrace[8].ok => ~ifPresent

\* Scenario A: no peers, no listen address, the engine returns Ok and the
\* interface is deleted.
C16_Witness ==
    /\ Len(options.peers) = 0 /\ ~IsSome(options.listen)
    /\ Len(wgReqs) = 1 /\ wgReqs[1].listen_port = None
    /\ srvListen = Some(<< >>)
    /\ out = "Ok" /\ result = "Ok" /\ process = "exit0"
    /\ ~ifPresent

\* The operations of a complete run for the given number of peers.
FullRun(k) ==
    << "add", "get", "up", "set_handler", "set_device", "new_server" >>
    \o [j \in 1..k |-> "add_peer"]
    \o << "event_loop", "del" >>

\* C18: in a run without interrupts the requests are a prefix of: create,
\* look up, activate, (arm the handler), set device, (construct the engine),
\* one registration per peer in the order given, the run loop, delete.  A
\* request is followed by another only if it succeeded (the delete follows
\* the run loop whatever the loop returned), none is issued twice, and once
\* exchange() has returned without entering the run loop neither the run
\* loop nor a later startup request was issued.
C18_StartupOrderFailFast ==
    signals = 0 =>
       /\ MainTrace = trace
       /\ Len(MainOps) <= Len(FullRun(Len(options.peers)))
       /\ MainOps = SubSeq(FullRun(Len(options.peers)), 1, Len(MainOps))
       /\ \A i \in 1..Len(trace) :
             (i < Len(trace) /\ trace[i].op # "event_loop") => trace[i].ok
       /\ \A i \in 1..Len(trace) :
             (~trace[i].ok /\ trace[i].op \notin {"event_loop", "del"})
                => /\ pc \in {"returned", "exited", "panicked"}
                   /\ result # "Ok"
                   /\ out = "pending"
       /\ (result # "pending" /\ out = "pending")
             => Issued("event_loop") = {} /\ Issued("del") = {}
       /\ Len(srvPeers) <= Len(options.peers)
       /\ \A j \in 1..Len(srvPeers) :
             /\ IsSome(srvPeers[j].endpoint) = IsSome(options.peers[j].endpoint)
             /\ Len(srvPeers[j].outwg.extra_params)
                   = Pair(options.peers[j].endpoint)
                     + Pair(options.peers[j].persistent_keepalive)
                     + Pair(options.peers[j].allowed_ips)

\* A complete run with two different peers and no interrupt.
C18_Witness ==
    /\ signals = 0 /\ process = "exit0"
    /\ MainOps = FullRun(2)
    /\ ~IsSome(srvPeers[1].endpoint) /\ IsSome(srvPeers[2].endpoint)

\* ------------------------------------------------------------------------
\* Properties of the handler's arming
\* ------------------------------------------------------------------------
\* C19: the handler is armed at most once, only after link_create_and_up
\* returned the index (the activation succeeded before it) and before the
\* run loop is entered; the index it holds is the one bound to link_index
\* when it was armed, which is also the index of every set-device request
\* and of every delete request of the main flow and of the handler.
C19_ArmedOnceAfterCreate ==
    /\ Cardinality(Issued("set_handler")) <= 1
    /\ handler # "unset" =>
          /\ link_index # 0
          /\ handlerIdx = link_index
          /\ \E u \in Issued("up"), s \in Issued("set_handler") :
                /\ u < s
                /\ trace[u].ok /\ trace[s].ok
                /\ trace[u].idx = handlerIdx
                /\ trace[s].idx = handlerIdx
    /\ handler = "unset" => IssuedBy("del", "handler") = {}
    /\ (pc = "event_loop" \/ Issued("event_loop") # {}) =>
          /\ handler # "unset"
          /\ \A e \in Issued("event_loop") :
                \E s \in Issued("set_handler") : s < e /\ trace[s].ok
    /\ \A i \in 1..Len(wgReqs) :
          handler # "unset" /\ wgReqs[i].index = handlerIdx
    /\ \A d \in Issued("del") :
          handler # "unset" /\ trace[d].idx = handlerIdx

\* The handler ran its delete and the main flow ran its own afterwards, both
\* for the index captured at arming.
C19_Witness ==
    /\ handler = "done"
    /\ handlerIdx = link_index /\ link_index # 0
    /\ IssuedBy("del", "handler") # {}
    /\ IssuedBy("del", "main") # {}
    /\ Len(wgReqs) = 1

\* ------------------------------------------------------------------------
\* key.rs: the file system the key commands work on
\* ------------------------------------------------------------------------
\* The paths the commands are called with, and the file names they use.
Paths == {"priv", "pub"}
Files == {"wgsk", "pqsk", "pqpk", "wgpk"}

\* The values the random generators can draw.
KeyIds == {1, 2}

\* A key in memory: what it is and which value it has.
Key(kind, id) == [kind |-> kind, id |-> id]

\* The bytes of a file: the key they hold and how it is written ("b64": base64
\* text, "raw": the secret's bytes, "short": a write that was cut off).
Content(enc, k) == [enc |-> enc, kind |-> k.kind, id |-> k.id]
Truncated == [enc |-> "short", kind |-> "none", id |-> 0]

\* What a path holds: nothing, a directory with its files, or a regular file.
NoFiles == [n \in Files |-> None]
AbsentPath == [kind |-> "absent", files |-> NoFiles]
EmptyDir == [kind |-> "dir", files |-> NoFiles]
RegularFile == [kind |-> "file", files |-> NoFiles]

\* Path::exists()
Exists(f, path) == f[path].kind # "absent"

\* fs::create_dir_all(path): creates the directory; an existing directory is
\* left as it is.
CreateDirAll(f, path) ==
    IF f[path].kind = "absent" THEN [f EXCEPT ![path] = EmptyDir] ELSE f

\* fs::write(dir.join(name), bytes) and store_secret(dir.join(name))
WriteFile(f, dir, name, c) == [f EXCEPT ![dir].files[name] = Some(c)]

\* The bytes of dir/name, None when there is no such file.
ReadFile(f, dir, name) ==
    IF f[dir].kind = "dir" THEN f[dir].files[name] ELSE None

\* wgsk.to_base64(), wgpk.to_base64()
ToBase64(k) == Content("b64", k)

\* store_secret: the key's bytes as they are.
RawBytes(k) == Content("raw", k)

\* Privkey::from_base64(&fs::read_to_string(path)?): base64 text of a
\* 32-byte value.
PrivkeyFromBase64(file) ==
    IF IsSome(file) /\ Unwrap(file).enc = "b64"
       /\ Unwrap(file).kind \in {"wgsk", "wgpk"}
    THEN Some(Key("wgsk", Unwrap(file).id))
    ELSE None

\* Pubkey::from_base64(&fs::read_to_string(path).unwrap())
PubkeyFromBase64(file) ==
    IF IsSome(file) /\ Unwrap(file).enc = "b64"
       /\ Unwrap(file).kind \in {"wgsk", "wgpk"}
    THEN Some(Key("wgpk", Unwrap(file).id))
    ELSE None

\* SSk::load(path).is_ok(), SPk::load(path).is_ok(): the file holds the bytes
\* of a key of that size.
SSkLoads(file) ==
    IsSome(file) /\ Unwrap(file).enc = "raw" /\ Unwrap(file).kind = "pqsk"
SPkLoads(file) ==
    IsSome(file) /\ Unwrap(file).enc = "raw" /\ Unwrap(file).kind = "pqpk"

\* wgsk.pubkey(): the public key that belongs to the private key.
PubkeyOf(k) == Key("wgpk", k.id)

\* What a call returns and what it leaves on disk.
KeyOk(f) == [fs |-> f, res |-> "Ok"]
KeyErr(f) == [fs |-> f, res |-> "Err"]

\* The steps of genkey and pubkey that can fail (each has a `?`); a failed
\* write leaves no file or (`_short`) a file that was cut off.
GenkeyFaults == {"none", "create_dir", "write_wgsk", "write_wgsk_short",
                 "keygen", "store_pqsk", "store_pqsk_short",
                 "store_pqpk", "store_pqpk_short"}
PubkeyFaults == {"none", "create_dir", "read_wgsk", "write_wgpk",
                 "write_wgpk_short", "copy_pqpk", "copy_pqpk_short"}

\* The values Privkey::generate() and StaticKem::keygen draw in one call.
KeyDraws == [wg : KeyIds, pq : KeyIds]

\* ------------------------------------------------------------------------
\* key.rs: genkey and pubkey
\* ------------------------------------------------------------------------
\* Faulty variant: the check for an existing directory is missing.
genkey_Overwrite(f, private_keys_dir, draws, fault) ==
    LET d    == private_keys_dir
        wgsk == Key("wgsk", draws.wg)
        pqsk == Key("pqsk", draws.pq)
        pqpk == Key("pqpk", draws.pq)
        f1   == CreateDirAll(f, d)
        f2   == WriteFile(f1, d, "wgsk", ToBase64(wgsk))
        f3   == WriteFile(f2, d, "pqsk", RawBytes(pqsk))
        f4   == WriteFile(f3, d, "pqpk", RawBytes(pqpk))
    IN  IF fault = "create_dir" \/ f[d].kind = "file" THEN KeyErr(f)
        ELSE IF fault = "write_wgsk" THEN KeyErr(f1)
        ELSE IF fault = "write_wgsk_short"
             THEN KeyErr(WriteFile(f1, d, "wgsk", Truncated))
        ELSE IF fault = "keygen" THEN KeyErr(f2)
        ELSE IF fault = "store_pqsk" THEN KeyErr(f2)
        ELSE IF fault = "store_pqsk_short"
             THEN KeyErr(WriteFile(f2, d, "pqsk", Truncated))
        ELSE IF fault = "store_pqpk" THEN KeyErr(f3)
        ELSE IF fault = "store_pqpk_short"
             THEN KeyErr(WriteFile(f3, d, "pqpk", Truncated))
        ELSE KeyOk(f4)

\* pub fn genkey(private_keys_dir: &Path) -> Result<()>
\* An existing path is refused before anything is written; otherwise the
\* directory is created and wgsk (base64), pqsk and pqpk are written in this
\* order, each step returning early on its error.
genkey(f, private_keys_dir, draws, fault) ==
    LET d    == private_keys_dir
        wgsk == Key("wgsk", draws.wg)
        pqsk == Key("pqsk", draws.pq)
        pqpk == Key("pqpk", draws.pq)
        f1   == CreateDirAll(f, d)
        f2   == WriteFile(f1, d, "wgsk", ToBase64(wgsk))
        f3   == WriteFile(f2, d, "pqsk", RawBytes(pqsk))
        f4   == WriteFile(f3, d, "pqpk", RawBytes(pqpk))
    IN  IF Exists(f, d) THEN KeyErr(f)
        ELSE IF fault = "create_dir" \/ f[d].kind = "file" THEN KeyErr(f)
        ELSE IF fault = "write_wgsk" THEN KeyErr(f1)
        ELSE IF fault = "write_wgsk_short"
             THEN KeyErr(WriteFile(f1, d, "wgsk", Truncated))
        ELSE IF fault = "keygen" THEN KeyErr(f2)
        ELSE IF fault = "store_pqsk" THEN KeyErr(f2)
        ELSE IF fault = "store_pqsk_short"
             THEN KeyErr(WriteFile(f2, d, "pqsk", Truncated))
        ELSE IF fault = "store_pqpk" THEN KeyErr(f3)
        ELSE IF fault = "store_pqpk_short"
             THEN KeyErr(WriteFile(f3, d, "pqpk", Truncated))
        ELSE KeyOk(f4)

\* Faulty variant: the secret key file is copied in the place of pqpk.
pubkey_CopiesSecret(f, private_keys_dir, public_keys_dir, fault) ==
    LET d    == private_keys_dir
        p    == public_keys_dir
        f1   == CreateDirAll(f, p)
        wgsk == PrivkeyFromBase64(ReadFile(f1, d, "wgsk"))
        wgpk == PubkeyOf(Unwrap(wgsk))
        f2   == WriteFile(f1, p, "wgpk", ToBase64(wgpk))
        src  == ReadFile(f2, d, "pqsk")
        f3   == WriteFile(f2, p, "pqpk", Unwrap(src))
    IN  IF Exists(f, p) THEN KeyErr(f)
        ELSE IF fault = "create_dir" THEN KeyErr(f)
        ELSE IF fault = "read_wgsk" \/ ~IsSome(wgsk) THEN KeyErr(f1)
        ELSE IF fault = "write_wgpk" THEN KeyErr(f1)
        ELSE IF fault = "write_wgpk_short"
             THEN KeyErr(WriteFile(f1, p, "wgpk", Truncated))
        ELSE IF fault = "copy_pqpk" \/ ~IsSome(src) THEN KeyErr(f2)
        ELSE IF fault = "copy_pqpk_short"
             THEN KeyErr(WriteFile(f2, p, "pqpk", Truncated))
        ELSE KeyOk(f3)

\* pub fn pubkey(private_keys_dir: &Path, public_keys_dir: &Path) -> Result<()>
\* An existing public directory is refused before anything is written;
\* otherwise it is created, wgsk is read and parsed, its public key written
\* to wgpk (base64), and pqpk copied with fs::copy.
pubkey(f, private_keys_dir, public_keys_dir, fault) ==
    LET d    == private_keys_dir
        p    == public_keys_dir
        f1   == CreateDirAll(f, p)
        wgsk == PrivkeyFromBase64(ReadFile(f1, d, "wgsk"))
        wgpk == PubkeyOf(Unwrap(wgsk))
        f2   == WriteFile(f1, p, "wgpk", ToBase64(wgpk))
        src  == ReadFile(f2, d, "pqpk")
        f3   == WriteFile(f2, p, "pqpk", Unwrap(src))
    IN  IF Exists(f, p) THEN KeyErr(f)
        ELSE IF fault = "create_dir" THEN KeyErr(f)
        ELSE IF fault = "read_wgsk" \/ ~IsSome(wgsk) THEN KeyErr(f1)
        ELSE IF fault = "write_wgpk" THEN KeyErr(f1)
        ELSE IF fault = "write_wgpk_short"
             THEN KeyErr(WriteFile(f1, p, "wgpk", Truncated))
        ELSE IF fault = "copy_pqpk" \/ ~IsSome(src) THEN KeyErr(f2)
        ELSE IF fault = "copy_pqpk_short"
             THEN KeyErr(WriteFile(f2, p, "pqpk", Truncated))
        ELSE KeyOk(f3)

\* A directory as a complete genkey leaves it, and one whose wgsk was cut off.
KeyDir ==
    [kind |-> "dir",
     files |-> [NoFiles EXCEPT !["wgsk"] = Some(ToBase64(Key("wgsk", 1))),
                               !["pqsk"] = Some(RawBytes(Key("pqsk", 1))),
                               !["pqpk"] = Some(RawBytes(Key("pqpk", 1)))]]
BrokenDir ==
    [kind |-> "dir", files |-> [NoFiles EXCEPT !["wgsk"] = Some(Truncated)]]

\* What a path can hold before the first call.
StartPaths == {AbsentPath, EmptyDir, RegularFile, KeyDir, BrokenDir}

\* A record of one call.
Call(cmd, d, p, fault, res) ==
    [cmd |-> cmd, private_keys_dir |-> d, public_keys_dir |-> p,
     fault |-> fault, res |-> res]

InitKey ==
    /\ fs \in [Paths -> StartPaths]
    /\ prevFs = fs
    /\ lastCall = Call("none", "none", "none", "none", "none")
    /\ generated = {}
    /\ argv = << >>
    /\ cli = [state |-> "unused"]
    /\ options = DefaultOptions
    /\ build = "release"
    /\ pc = "key"
    /\ process = "running"
    /\ result = "pending"
    /\ out = "pending"
    /\ link_index = 0
    /\ lookup = 0
    /\ ifPresent = FALSE
    /\ handler = "unset"
    /\ handlerIdx = 0
    /\ signals = 0
    /\ trace = << >>
    /\ wgReqs = << >>
    /\ srvListen = None
    /\ srvPeers = << >>
    /\ peerIdx = 0
    /\ peerReads = << >>

\* Command::GenKey { private_keys_dir } => genkey(&private_keys_dir)
GenkeyCall ==
    /\ pc = "key"
    /\ \E d \in Paths, draws \in KeyDraws, fault \in GenkeyFaults :
          LET r == genkey(fs, d, draws, fault) IN
          /\ fs' = r.fs
          /\ prevFs' = fs
          /\ lastCall' = Call("genkey", d, "none", fault, r.res)
          /\ generated' = IF r.res = "Ok" THEN generated \cup {d} ELSE generated
    /\ UNCHANGED << cliVars, exchangeVars >>

\* Command::PubKey { private_keys_dir, public_keys_dir }
\*     => pubkey(&private_keys_dir, &public_keys_dir)
PubkeyCall ==
    /\ pc = "key"
    /\ \E d \in Paths, p \in Paths, fault \in PubkeyFaults :
          LET r == pubkey(fs, d, p, fault) IN
          /\ fs' = r.fs
          /\ prevFs' = fs
          /\ lastCall' = Call("pubkey", d, p, fault, r.res)
          /\ generated' = generated
    /\ UNCHANGED << cliVars, exchangeVars >>

NextKey == GenkeyCall \/ PubkeyCall

SpecKey == InitKey /\ [][NextKey]_vars

\* ------------------------------------------------------------------------
\* Properties of the key commands
\* ------------------------------------------------------------------------
\* The last call was cmd and none of its steps was made to fail.
Completed(cmd) == lastCall.cmd = cmd /\ lastCall.fault = "none"

\* C17: genkey(D) for a D that does not exist, when none of its file-system
\* and key-generation steps fails, returns Ok and leaves D a directory whose
\* wgsk, pqsk and pqpk load, touching no other path; pubkey(D, P) after it,
\* for a P that does not exist and again with no failing step, returns Ok
\* and leaves P a directory holding wgpk, the base64 public key of D/wgsk,
\* and pqpk, the same bytes as D/pqpk, with D as it was.
C17_GenkeyThenPubkey ==
    LET d == lastCall.private_keys_dir
        p == lastCall.public_keys_dir
    IN
    /\ (Completed("genkey") /\ prevFs[d].kind = "absent") =>
          /\ lastCall.res = "Ok"
          /\ fs[d].kind = "dir"
          /\ IsSome(PrivkeyFromBase64(fs[d].files["wgsk"]))
          /\ SSkLoads(fs[d].files["pqsk"])
          /\ SPkLoads(fs[d].files["pqpk"])
          /\ d \in generated
          /\ \A q \in Paths \ {d} : fs[q] = prevFs[q]
    /\ (Completed("pubkey") /\ d \in generated /\ prevFs[p].kind = "absent") =>
          /\ lastCall.res = "Ok"
          /\ fs[p].kind = "dir"
          /\ IsSome(PubkeyFromBase64(fs[p].files["wgpk"]))
          /\ fs[p].files["wgpk"]
                = Some(ToBase64(Key("wgpk", Unwrap(fs[d].files["wgsk"]).id)))
          /\ SPkLoads(fs[p].files["pqpk"])
          /\ fs[p].files["pqpk"] = fs[d].files["pqpk"]
          /\ fs[p].files["wgsk"] = None /\ fs[p].files["pqsk"] = None
          /\ fs[d] = prevFs[d]

\* genkey("priv") on a fresh path, then pubkey("priv", "pub") on a fresh path.
C17_Witness ==
    /\ Completed("pubkey") /\ lastCall.res = "Ok"
    /\ lastCall.private_keys_dir = "priv" /\ lastCall.public_keys_dir = "pub"
    /\ "priv" \in generated
    /\ prevFs["pub"].kind = "absent"
    /\ fs["pub"].files["pqpk"] = fs["priv"].files["pqpk"]
    /\ fs["pub"].files["pqpk"] = Some(RawBytes(Key("pqpk", 2)))
    /\ fs["pub"].files["wgpk"] = Some(ToBase64(Key("wgpk", 1)))

\* C20: a genkey call whose private-keys directory exists returns an error
\* and leaves every path as it was; so does a pubkey call whose public-keys
\* directory exists.
C20_ExistingTargetUntouched ==
    /\ (lastCall.cmd = "genkey" /\ Exists(prevFs, lastCall.private_keys_dir))
          => lastCall.res = "Err" /\ fs = prevFs
    /\ (lastCall.cmd = "pubkey" /\ Exists(prevFs, lastCall.public_keys_dir))
          => lastCall.res = "Err" /\ fs = prevFs

\* genkey was refused on a directory that holds keys, which are still there.
C20_Witness ==
    /\ lastCall.cmd = "genkey" /\ lastCall.fault = "none"
    /\ lastCall.res = "Err"
    /\ prevFs[lastCall.private_keys_dir] = KeyDir
    /\ fs = prevFs

\* ------------------------------------------------------------------------
\* Properties of the command line's command
\* ------------------------------------------------------------------------
\* The arguments after the executable's name.
ArgBody == IF Len(argv) = 0 THEN << >> ELSE Tail(argv)

\* The keywords that select a command.
CommandKeywords == {Str("genkey"), Str("pubkey"), Str("exchange")}

\* The number of `verbose` words the argument list starts with.
LeadingVerbose ==
    IF \A i \in 1..Len(ArgBody) : ArgBody[i] = Str("verbose") THEN Len(ArgBody)
    ELSE (CHOOSE i \in 1..Len(ArgBody) :
             /\ ArgBody[i] # Str("verbose")
             /\ \A h \in 1..(i - 1) : ArgBody[h] = Str("verbose")) - 1

\* The first word that is not `verbose` (none: only `verbose` words).
FirstWord ==
    IF LeadingVerbose < Len(ArgBody) THEN Some(ArgBody[LeadingVerbose + 1])
                                     ELSE None

\* The words from position i on are all `verbose`.
OnlyVerboseFrom(i) == \A h \in i..Len(ArgBody) : ArgBody[h] = Str("verbose")

\* C21: Cli::parse returns an error or a Cli whose command is present and is
\* the command of the one command keyword of the list (genkey with its
\* directory, pubkey with its two directories, or exchange), nothing but
\* `verbose` standing before the keyword and, for genkey and pubkey, after
\* its arguments; main's unwrap of the command therefore never panics.  A
\* list without a command keyword is an error, and so is a list with a
\* command keyword after the arguments of genkey or pubkey.
C21_CommandPresentAndUnique ==
    cli.state \in {"parsed", "dispatched"} =>
       LET k == LeadingVerbose
           n == Len(ArgBody)
           r == cli.res
       IN
       /\ r.ok =>
             /\ IsSome(r.val.command)
             /\ IsSome(FirstWord) /\ Unwrap(FirstWord) \in CommandKeywords
             /\ Unwrap(FirstWord) = Str("genkey") =>
                   /\ n >= k + 2
                   /\ Unwrap(r.val.command) = GenKey(ArgBody[k + 2])
                   /\ OnlyVerboseFrom(k + 3)
             /\ Unwrap(FirstWord) = Str("pubkey") =>
                   /\ n >= k + 3
                   /\ Unwrap(r.val.command)
                         = PubKey(ArgBody[k + 2], ArgBody[k + 3])
                   /\ OnlyVerboseFrom(k + 4)
             /\ Unwrap(FirstWord) = Str("exchange") =>
                   /\ n >= k + 2
                   /\ Unwrap(r.val.command).type = "Exchange"
                   /\ Unwrap(r.val.command).options.private_keys_dir
                         = ArgBody[k + 2]
       /\ (\A i \in 1..n : ArgBody[i] \notin CommandKeywords) => ~r.ok
       /\ (/\ FirstWord = Some(Str("genkey"))
           /\ \E i \in (k + 3)..n : ArgBody[i] \in CommandKeywords) => ~r.ok
       /\ (/\ FirstWord = Some(Str("pubkey"))
           /\ \E i \in (k + 4)..n : ArgBody[i] \in CommandKeywords) => ~r.ok
       /\ cli.state = "dispatched" =>
             /\ process # "panic101"
             /\ r.ok => pc \in {"GenKey", "PubKey", "Exchange"}
             /\ ~r.ok => process = "exit1"

\* `rp verbose pubkey priv priv` was parsed and dispatched to pubkey.
C21_Witness ==
    /\ cli.state = "dispatched"
    /\ argv = << Str("rp"), Str("verbose"), Str("pubkey"), Str("priv"),
                 Str("priv") >>
    /\ cli.res.ok
    /\ cli.res.val.verbose
    /\ Unwrap(cli.res.val.command) = PubKey(Str("priv"), Str("priv"))
    /\ pc = "PubKey" /\ process = "running"

====
